---------------------------- MODULE Spec2Model ----------------------------
(* Receive-side ISO-TP reassembly: TransportDecoder<N> of src/src/lib.rs.   *)
(* One decoder instance is fed 8-byte frames through update(); ready() and  *)
(* data() are read-only observers of the decoder's fields.                  *)
EXTENDS Integers, Sequences, FiniteSets, TLC

(* ------------------------------ constants ------------------------------ *)

MAX_DATA_BYTES_PER_FRAME == 7

NUM_BYTES_PER_FRAME == 8

MAX_BYTES_PER_TRANSFER == 4095

\* Width of the integer types of the decoder's fields.
U8 == 256

U16 == 65536

\* data_length of the First branch ("let data_length = 6").
FIRST_DATA_LENGTH == 6

(* ------------------------------- bounds -------------------------------- *)

\* Capacities N instantiated under Spec: one below the First/Single chunk
\* sizes, the capacity of the single-frame tests, and one holding a First
\* frame plus two Consecutive chunks.
SmallN == 4

TestN == 8

MultiN == 14

Capacities == {SmallN, TestN, MultiN}

\* Number of update calls on one instance under Spec.
MaxCalls == 3

\* Values of frame byte 1 under Spec; byte 1 is the low length byte of a
\* First frame and the first payload byte of the other kinds.
LenBytes == {3, 6, 14, 15}

\* High and low nibbles of frame byte 0 under Spec.
KindNibbles == {0, 1, 2, 3, 15}

LowNibbles == {0, 1, 2, 7, 8}

\* Capacities under SpecTransfer: every payload length 8..N is sent for the
\* capacities up to LongN (17 Consecutive frames, so the index passes 15
\* and returns to 0); for WrapN only the lengths WrapN - 1 and WrapN are
\* sent (254 and 255 Consecutive frames, where the u8 counter reaches its
\* last value).
LongN == 120

WrapN == 1785

TransferCapacities == {TestN, MultiN, LongN, WrapN}

\* payload[i] = (i + seed) mod 256
Seeds == {0, 128}

\* Under SpecKeep: number of update calls on the instance; a Single frame
\* and 256 matching Consecutive frames take next_index through all of its
\* 256 values.
MaxKeepCalls == 258

\* Under SpecReuse: number of frames fed after the transfer has completed.
MaxAfter == 2

\* Under SpecResume: number of frames that are not the next frame of the
\* payload (rejected frames and FlowControl frames) fed during one transfer.
MaxOthers == 2

(* ------------------------------- state --------------------------------- *)

VARIABLES
    N,                \* const generic N: capacity of the buffer
    overflow_checks,  \* build profile: TRUE = arithmetic overflow panics
    data,             \* self.data: [u8; N]
    expected_length,  \* self.expected_length: u16
    current_length,   \* self.current_length: u16
    next_index,       \* self.next_index: u8
    frame,            \* argument of the last update call (<<>> before any)
    ret,              \* what the last update call returned
    completed,        \* some update call has returned Ok(Some(_))
    calls,            \* number of update calls made so far
    errored,          \* some update call returned Err during a transfer
    payload,          \* SpecTransfer: the payload being sent
    sent              \* SpecTransfer: number of its frames fed so far

vars == <<N, overflow_checks, data, expected_length, current_length,
          next_index, frame, ret, completed, calls, errored, payload, sent>>

(* ------------------------------ results -------------------------------- *)

NotCalled == [tag |-> "NotCalled", a |-> 0, b |-> 0]

OkNone == [tag |-> "OkNone", a |-> 0, b |-> 0]

OkSome(size) == [tag |-> "OkSome", a |-> size, b |-> 0]

ErrOverflow(observed, limit) == [tag |-> "Overflow", a |-> observed, b |-> limit]

ErrMissedFrame(expected, actual) == [tag |-> "MissedFrame", a |-> expected, b |-> actual]

ErrBufferTooSmall(capacity, declared) == [tag |-> "BufferTooSmall", a |-> capacity, b |-> declared]

\* A panic of the call on a slice range that exceeds the buffer.
Panic == [tag |-> "Panic", a |-> 0, b |-> 0]

\* A panic of the call on an arithmetic overflow ("attempt to add / subtract
\* with overflow"), in a build with overflow checks.
PanicOverflow == [tag |-> "Panic", a |-> 1, b |-> 0]

(* ------------------------------ helpers -------------------------------- *)

Min(x, y) == IF x < y THEN x ELSE y

HighNibble(byte) == byte \div 16

LowNibble(byte) == byte % 16

\* FrameType with #[default] on the last variant, not on Single.
FrameTypeFrom_DefaultLast(n) ==
    CASE n = 0 -> "Single"
      [] n = 1 -> "First"
      [] n = 2 -> "Consecutive"
      [] n = 3 -> "FlowControl"
      [] OTHER -> "FlowControl"

\* FrameType without the FlowControl = 3 discriminant: 3 takes the default.
FrameTypeFrom_NoFlowControl(n) ==
    CASE n = 0 -> "Single"
      [] n = 1 -> "First"
      [] n = 2 -> "Consecutive"
      [] OTHER -> "Single"

\* FrameType::from(u8) as derived by num_enum::FromPrimitive: the listed
\* discriminants map to their variants, every other value to the #[default].
FrameTypeFrom(n) ==
    CASE n = 0 -> "Single"
      [] n = 1 -> "First"
      [] n = 2 -> "Consecutive"
      [] n = 3 -> "FlowControl"
      [] OTHER -> "Single"

\* dst[start .. start + Len(src)].copy_from_slice(src), start counted from 0.
CopyFromSlice(dst, start, src) ==
    [i \in 1 .. Len(dst) |->
        IF i > start /\ i <= start + Len(src) THEN src[i - start] ELSE dst[i]]

\* The decoder's fields as one record.
Self == [data |-> data, expected_length |-> expected_length,
         current_length |-> current_length, next_index |-> next_index]

\* TransportDecoder::new()
New(n) == [data |-> [i \in 1 .. n |-> 0], expected_length |-> 0,
           current_length |-> 0, next_index |-> 0]

\* max_size() returning the protocol-wide MAX_RECV_BYTES, not N.
max_size_MaxRecvBytes == MAX_BYTES_PER_TRANSFER

\* max_size()
max_size == N

\* ready(&self)
ready(self) == self.expected_length = self.current_length

\* Option<&[u8]> as returned by data().
None == [tag |-> "None", slice |-> <<>>]

Some(slice) == [tag |-> "Some", slice |-> slice]

\* data(&self): Some(&self.data[..expected_length]) if ready, else None.
\* Slicing past the end of the buffer panics.
data_of(self) ==
    IF ready(self)
    THEN IF self.expected_length <= Len(self.data)
         THEN Some(SubSeq(self.data, 1, self.expected_length))
         ELSE [tag |-> "Panic", slice |-> <<>>]
    ELSE None

(* ------------------------------ update --------------------------------- *)

\* The Single branch storing the two lengths before the length check.
SingleOverflow_StoresLengths(self, data_length) ==
    [self |-> [self EXCEPT !.expected_length = data_length % U16,
                           !.current_length = data_length % U16],
     ret |-> ErrOverflow(data_length % U16, MAX_BYTES_PER_TRANSFER % U16)]

\* The Single branch reporting the per-frame maximum as the limit.
SingleOverflow_FrameLimit(self, data_length) ==
    [self |-> self,
     ret |-> ErrOverflow(data_length % U16, MAX_DATA_BYTES_PER_FRAME % U16)]

\* Single branch, data_length > MAX_DATA_BYTES_PER_FRAME: return Err(Overflow).
SingleOverflow(self, data_length) ==
    [self |-> self,
     ret |-> ErrOverflow(data_length % U16, MAX_BYTES_PER_TRANSFER % U16)]

\* The Single branch storing expected_length only.
SingleAccept_NoCurrentLength(self, f, data_length) ==
    LET s1 == [self EXCEPT !.expected_length = data_length % U16]
    IN IF data_length > Len(self.data)
       THEN [self |-> s1, ret |-> Panic]
       ELSE [self |-> [s1 EXCEPT !.data =
                          CopyFromSlice(self.data, 0, SubSeq(f, 2, data_length + 1))],
             ret |-> OkSome(data_length)]

\* Single branch past the length check: the two lengths are stored, then
\* data[0..data_length] is sliced (a panic if it exceeds the buffer) and
\* filled from frame[1..data_length + 1].
SingleAccept(self, f, data_length) ==
    LET s1 == [self EXCEPT !.expected_length = data_length % U16,
                           !.current_length = data_length % U16]
    IN IF data_length > Len(self.data)
       THEN [self |-> s1, ret |-> Panic]
       ELSE [self |-> [s1 EXCEPT !.data =
                          CopyFromSlice(self.data, 0, SubSeq(f, 2, data_length + 1))],
             ret |-> OkSome(data_length)]

\* FrameType::Single branch of update.
UpdateSingle(self, f) ==
    LET data_length == LowNibble(f[1]) IN
    IF data_length > MAX_DATA_BYTES_PER_FRAME
    THEN SingleOverflow(self, data_length)
    ELSE SingleAccept(self, f, data_length)

\* The 12-bit length of a First frame: low nibble of byte 0, shifted left by
\* 8, plus byte 1 (u16 arithmetic).
DeclaredLength(f) == (((LowNibble(f[1]) * 256) % U16) + f[2]) % U16

\* First branch past the capacity check: expected_length is stored, then
\* data[0..6] is sliced (a panic if the buffer is shorter) and filled from
\* frame[2..]; current_length = 6, next_index = 1, and the final Ok(None).
FirstAccept(self, f, declared) ==
    LET s1 == [self EXCEPT !.expected_length = declared]
    IN IF FIRST_DATA_LENGTH > Len(self.data)
       THEN [self |-> s1, ret |-> Panic]
       ELSE [self |-> [s1 EXCEPT
                         !.data = CopyFromSlice(self.data, 0,
                                      SubSeq(f, 3, NUM_BYTES_PER_FRAME)),
                         !.current_length = FIRST_DATA_LENGTH,
                         !.next_index = 1],
             ret |-> OkNone]

\* The First branch storing expected_length before the capacity check.
UpdateFirst_StoresBeforeCheck(self, f) ==
    LET declared == DeclaredLength(f)
        max == max_size % U16
    IN IF declared > max
       THEN [self |-> [self EXCEPT !.expected_length = declared],
             ret |-> ErrBufferTooSmall(max, declared)]
       ELSE FirstAccept(self, f, declared)

\* FrameType::First branch of update.
UpdateFirst(self, f) ==
    LET declared == DeclaredLength(f)
        max == max_size % U16
    IN IF declared > max
       THEN [self |-> self, ret |-> ErrBufferTooSmall(max, declared)]
       ELSE FirstAccept(self, f, declared)

\* The Consecutive branch advancing next_index before comparing the indices.
ConsecutiveMissed_Advances(self, expected_index, actual_index) ==
    [self |-> [self EXCEPT !.next_index = (self.next_index + 1) % U8],
     ret |-> ErrMissedFrame(expected_index, actual_index)]

\* The Consecutive branch dropping the bytes received so far on a mismatch.
ConsecutiveMissed_Aborts(self, expected_index, actual_index) ==
    [self |-> [self EXCEPT !.current_length = 0],
     ret |-> ErrMissedFrame(expected_index, actual_index)]

\* Consecutive branch, index mismatch: return Err(MissedFrame).
ConsecutiveMissed(self, expected_index, actual_index) ==
    [self |-> self, ret |-> ErrMissedFrame(expected_index, actual_index)]

\* self.next_index += 1 on a u8: a panic with overflow checks, else wraps.
\* The result is the new value, or -1 for the panic.
NextIndexIncrement(index) ==
    IF index + 1 >= U8
    THEN IF overflow_checks THEN -1 ELSE (index + 1) % U8
    ELSE index + 1

\* Consecutive branch, index match.
ConsecutiveAccept(self, f) ==
    IF NextIndexIncrement(self.next_index) < 0
    THEN [self |-> self, ret |-> PanicOverflow]
    ELSE
    LET s1 == [self EXCEPT !.next_index = NextIndexIncrement(self.next_index)] IN
    IF overflow_checks /\ self.expected_length < self.current_length
    THEN [self |-> s1, ret |-> PanicOverflow]
    ELSE
    LET data_remaining == (self.expected_length - self.current_length + U16) % U16
        data_length == Min(MAX_DATA_BYTES_PER_FRAME, data_remaining)
        data_start == self.current_length
        data_end == data_start + data_length
    IN
    IF data_end > Len(self.data)
    THEN [self |-> s1, ret |-> Panic]
    ELSE
    LET s2 == [s1 EXCEPT !.data =
                  CopyFromSlice(self.data, data_start, SubSeq(f, 2, data_length + 1))]
    IN
    IF overflow_checks /\ self.current_length + data_length >= U16
    THEN [self |-> s2, ret |-> PanicOverflow]
    ELSE
    LET s3 == [s2 EXCEPT !.current_length = (self.current_length + data_length) % U16]
    IN [self |-> s3,
        ret |-> IF ready(s3) THEN OkSome(s3.current_length) ELSE OkNone]

\* The Consecutive branch without the comparison of the indices.
UpdateConsecutive_NoIndexCheck(self, f) == ConsecutiveAccept(self, f)

\* FrameType::Consecutive branch of update.
UpdateConsecutive(self, f) ==
    LET expected_index == self.next_index % 16
        actual_index == LowNibble(f[1])
    IN IF expected_index = actual_index
       THEN ConsecutiveAccept(self, f)
       ELSE ConsecutiveMissed(self, expected_index, actual_index)

\* FrameType::FlowControl branch of update (empty; falls through to Ok(None)).
UpdateFlowControl(self, f) == [self |-> self, ret |-> OkNone]

\* let frame_type = FrameType::from(frame[0] >> 4)
FrameTypeOf(f) == FrameTypeFrom(HighNibble(f[1]))

\* update(&mut self, frame)
update(self, f) ==
    LET frame_type == FrameTypeOf(f) IN
    CASE frame_type = "Single" -> UpdateSingle(self, f)
      [] frame_type = "First" -> UpdateFirst(self, f)
      [] frame_type = "Consecutive" -> UpdateConsecutive(self, f)
      [] frame_type = "FlowControl" -> UpdateFlowControl(self, f)

(* ------------------------------ inputs --------------------------------- *)

\* Seven bytes b, b+1, ..., b+6 (mod 256): bytes 1..7 of a frame, as in
\* frame2 (b = 7) and frame3 (b = 14) of test_transport_decoder_multi1.
Ramp(b) == [i \in 1 .. 7 |-> (b + i - 1) % U8]

\* The frame of test_transport_decoder_single1:
\* [0x07, 0x99, 0xAA, 0xBB, 0xCC, 0xDD, 0xEE, 0xFF].
Single1Frame == <<7, 153, 170, 187, 204, 221, 238, 255>>

Frames == {<<k * 16 + l>> \o Ramp(b) :
              k \in KindNibbles, l \in LowNibbles, b \in LenBytes}

(* ------------------------------ actions -------------------------------- *)

\* A multi-frame transfer is in progress: a First frame was accepted and
\* bytes are still missing.
InProgress == current_length >= FIRST_DATA_LENGTH /\ current_length < expected_length

\* The Err variants of the result of update.
ErrTags == {"Overflow", "MissedFrame", "BufferTooSmall"}

\* One call decoder.update(&f). A call that panicked ends the run.
Update(f) ==
    /\ ret.tag # "Panic"
    /\ LET r == update(Self, f) IN
        /\ data' = r.self.data
        /\ expected_length' = r.self.expected_length
        /\ current_length' = r.self.current_length
        /\ next_index' = r.self.next_index
        /\ ret' = r.ret
        /\ completed' = (completed \/ r.ret.tag = "OkSome")
        /\ errored' = (errored \/ (InProgress /\ r.ret.tag \in ErrTags))
    /\ frame' = f
    /\ calls' = calls + 1
    /\ UNCHANGED <<N, overflow_checks>>

InitDecoder(n) ==
    /\ N = n
    /\ overflow_checks \in BOOLEAN
    /\ data = New(n).data
    /\ expected_length = New(n).expected_length
    /\ current_length = New(n).current_length
    /\ next_index = New(n).next_index
    /\ frame = <<>>
    /\ ret = NotCalled
    /\ completed = FALSE
    /\ calls = 0
    /\ errored = FALSE

Init ==
    /\ \E n \in Capacities : InitDecoder(n)
    /\ payload = <<>>
    /\ sent = 0

Feed ==
    \E f \in Frames :
        /\ calls < MaxCalls
        /\ Update(f)
        /\ UNCHANGED <<payload, sent>>

Next == Feed

Spec == Init /\ [][Next]_vars

\* The decoder's fields after the step.
SelfNext == [data |-> data', expected_length |-> expected_length',
             current_length |-> current_length', next_index |-> next_index']

\* The call left buffer, expected_length, current_length and next_index alone.
FieldsUnchanged == UNCHANGED <<data, expected_length, current_length, next_index>>

(* ------------------------------------------------------------------------ *)
(* C2. Single-frame round trip: on a new decoder of any capacity, one       *)
(* update with a Single frame (byte 0 = L, 0 <= L <= 7) returns             *)
(* Ok(Some(L)); then ready() is true and data() is exactly frame[1..1+L].   *)
(* ------------------------------------------------------------------------ *)
C2_SingleRoundTrip ==
    (calls = 1 /\ HighNibble(frame[1]) = 0 /\ LowNibble(frame[1]) <= MAX_DATA_BYTES_PER_FRAME) =>
        /\ ret = OkSome(LowNibble(frame[1]))
        /\ ready(Self)
        /\ data_of(Self) = Some(SubSeq(frame, 2, LowNibble(frame[1]) + 1))

\* The same round trip for the payloads that fit the buffer.
SingleRoundTripWithinCapacity ==
    (calls = 1 => LowNibble(frame[1]) <= N) => C2_SingleRoundTrip

(* ------------------------------------------------------------------------ *)
(* C3. Sequence violation: a Consecutive frame whose low nibble differs     *)
(* from next_index masked to 4 bits fails with MissedFrame(required,        *)
(* actual) and leaves buffer, expected_length, current_length and           *)
(* next_index unchanged.                                                    *)
(* ------------------------------------------------------------------------ *)
C3_Step ==
    (FrameTypeOf(frame') = "Consecutive" /\ LowNibble(frame'[1]) # next_index % 16) =>
        /\ ret' = ErrMissedFrame(next_index % 16, LowNibble(frame'[1]))
        /\ FieldsUnchanged

C3_SequenceViolation == [][C3_Step]_vars

C3_Witness ==
    /\ calls >= 2
    /\ FrameTypeOf(frame) = "Consecutive"
    /\ ret = ErrMissedFrame(1, 2)
    /\ InProgress

(* ------------------------------------------------------------------------ *)
(* C4. Capacity violation: a First frame whose 12-bit declared length       *)
(* exceeds N fails with BufferTooSmall(N, declared) and leaves buffer,      *)
(* expected_length, current_length and next_index unchanged.                *)
(* ------------------------------------------------------------------------ *)
C4_Step ==
    (FrameTypeOf(frame') = "First" /\ DeclaredLength(frame') > N) =>
        /\ ret' = ErrBufferTooSmall(N, DeclaredLength(frame'))
        /\ FieldsUnchanged

C4_CapacityViolation == [][C4_Step]_vars

C4_Witness ==
    /\ calls >= 2
    /\ FrameTypeOf(frame) = "First"
    /\ ret = ErrBufferTooSmall(N, N + 1)
    /\ InProgress

(* ------------------------------------------------------------------------ *)
(* C5. Length invariant: after every update that returns Ok,                *)
(* current_length <= expected_length <= N.                                  *)
(* ------------------------------------------------------------------------ *)
C5_LengthInvariant ==
    ret.tag \in {"OkNone", "OkSome"} =>
        current_length <= expected_length /\ expected_length <= N

(* ------------------------------------------------------------------------ *)
(* C6. No data before completion: while no update has returned completion   *)
(* (the new decoder included), ready() is false and data() is None.         *)
(* ------------------------------------------------------------------------ *)
C6_NoDataBeforeCompletion ==
    ~completed => (~ready(Self) /\ data_of(Self) = None)

(* ------------------------------------------------------------------------ *)
(* C7. As claimed: after an update that fails with Overflow or MissedFrame, *)
(* ready() is false, whatever the state before the call.                    *)
(* ------------------------------------------------------------------------ *)
C7_NotReadyAfterError ==
    ret.tag \in {"Overflow", "MissedFrame"} => ~ready(Self)

(* C7, amended: an update that fails with Overflow or MissedFrame on a      *)
(* decoder whose ready() was false before the call leaves ready() false.    *)
C7_Step ==
    (ret'.tag \in {"Overflow", "MissedFrame"} /\ ~ready(Self)) => ~ready(SelfNext)

C7_ErrorKeepsNotReady == [][C7_Step]_vars

C7_Witness ==
    /\ calls >= 2
    /\ ret.tag = "Overflow"
    /\ InProgress
    /\ ~ready(Self)

(* ------------------------------------------------------------------------ *)
(* C8. Single-frame overflow: a Single-kind frame with low nibble L in      *)
(* 8..15 fails with Overflow(L, 4095), the transfer-wide maximum, and       *)
(* leaves buffer, expected_length, current_length and next_index unchanged. *)
(* ------------------------------------------------------------------------ *)
C8_Step ==
    (FrameTypeOf(frame') = "Single" /\ LowNibble(frame'[1]) > MAX_DATA_BYTES_PER_FRAME) =>
        /\ ret' = ErrOverflow(LowNibble(frame'[1]), MAX_BYTES_PER_TRANSFER)
        /\ FieldsUnchanged

C8_SingleOverflow == [][C8_Step]_vars

C8_Witness ==
    /\ calls >= 2
    /\ FrameTypeOf(frame) = "Single"
    /\ ret = ErrOverflow(8, 4095)
    /\ InProgress

(* ------------------------------------------------------------------------ *)
(* C9. Accepted First frame: a First frame with declared length D <= N, for *)
(* any N, returns Ok(None), sets expected_length = D, copies frame[2..8] to *)
(* buffer[0..6], and sets current_length = 6 and next_index = 1.            *)
(* ------------------------------------------------------------------------ *)
C9_FirstAccepted ==
    (calls >= 1 /\ FrameTypeOf(frame) = "First" /\ DeclaredLength(frame) <= N) =>
        /\ ret = OkNone
        /\ expected_length = DeclaredLength(frame)
        /\ current_length = FIRST_DATA_LENGTH
        /\ next_index = 1
        /\ SubSeq(data, 1, FIRST_DATA_LENGTH) = SubSeq(frame, 3, NUM_BYTES_PER_FRAME)

\* The same where the buffer holds the six bytes of the First frame.
FirstAcceptedWithinCapacity == N >= FIRST_DATA_LENGTH => C9_FirstAccepted

(* ------------------------------------------------------------------------ *)
(* C10. FlowControl is a no-op: a frame whose high nibble is 3 returns      *)
(* Ok(None) and leaves buffer, expected_length, current_length and          *)
(* next_index unchanged.                                                    *)
(* ------------------------------------------------------------------------ *)
C10_Step ==
    HighNibble(frame'[1]) = 3 => (ret' = OkNone /\ FieldsUnchanged)

C10_FlowControlNoOp == [][C10_Step]_vars

C10_Witness ==
    /\ calls >= 2
    /\ HighNibble(frame[1]) = 3
    /\ ret = OkNone
    /\ InProgress

(* ------------------------------------------------------------------------ *)
(* C13. Buffer bounds safety: for every capacity N, every reachable state   *)
(* and every frame, the slice ranges of update stay within the buffer, so   *)
(* no update call faults on an out-of-range index.                          *)
(* ------------------------------------------------------------------------ *)
C13_NoIndexFault == ret # Panic

(* ------------------------------------------------------------------------ *)
(* C17. Short First frame defect: a First frame declaring D < 6, D <= N, is *)
(* accepted and leaves current_length = 6 above expected_length = D; the    *)
(* next Consecutive frame with index 1 then underflows the u16 subtraction  *)
(* expected_length - current_length: a panic with overflow checks, else the *)
(* difference wraps, the chunk is 7 bytes and they go to buffer[6..13] (a   *)
(* slice panic if N < 13).                                                  *)
(* ------------------------------------------------------------------------ *)
C17_Step ==
    /\ (/\ FrameTypeOf(frame') = "First"
        /\ DeclaredLength(frame') < FIRST_DATA_LENGTH
        /\ DeclaredLength(frame') <= N) =>
           /\ ret' = OkNone
           /\ current_length' = FIRST_DATA_LENGTH
           /\ expected_length' = DeclaredLength(frame')
    /\ (/\ calls >= 1
        /\ FrameTypeOf(frame) = "First"
        /\ ret = OkNone
        /\ expected_length < FIRST_DATA_LENGTH
        /\ FrameTypeOf(frame') = "Consecutive"
        /\ LowNibble(frame'[1]) = 1) =>
           /\ expected_length < current_length
           /\ IF overflow_checks
              THEN ret' = PanicOverflow
              ELSE IF FIRST_DATA_LENGTH + MAX_DATA_BYTES_PER_FRAME > N
                   THEN ret' = Panic
                   ELSE /\ ret' = OkNone
                        /\ current_length' =
                               FIRST_DATA_LENGTH + MAX_DATA_BYTES_PER_FRAME

C17_ShortFirstDefect == [][C17_Step]_vars

\* The same where the buffer holds the six bytes of the First frame.
ShortFirstDefectWithinCapacity ==
    [][N >= FIRST_DATA_LENGTH => C17_Step]_vars

(* ------------------------------------------------------------------------ *)
(* C18. Completion report consistency: whenever update returns              *)
(* Ok(Some(size)), ready() is true, size = current_length =                 *)
(* expected_length <= N, and data() is a slice of exactly size bytes.       *)
(* ------------------------------------------------------------------------ *)
C18_CompletionConsistent ==
    ret.tag = "OkSome" =>
        /\ ready(Self)
        /\ ret.a = current_length
        /\ current_length = expected_length
        /\ expected_length <= N
        /\ data_of(Self).tag = "Some"
        /\ Len(data_of(Self).slice) = ret.a

C18_Witness ==
    /\ ret.tag = "OkSome"
    /\ FrameTypeOf(frame) = "Consecutive"
    /\ ret.a = MultiN
    /\ calls = 3

(* ------------------------------------------------------------------------ *)
(* C20. Permissive frame-kind decoding: a frame whose high nibble is in     *)
(* 4..15 has the result and the effect on the decoder of the Single frame   *)
(* with the same low nibble and the same bytes 1..8; it never fails for the *)
(* unrecognized kind.                                                       *)
(* ------------------------------------------------------------------------ *)
AsSingleFrame(f) == [f EXCEPT ![1] = LowNibble(f[1])]

C20_Step ==
    HighNibble(frame'[1]) >= 4 =>
        /\ ret' = UpdateSingle(Self, AsSingleFrame(frame')).ret
        /\ SelfNext = UpdateSingle(Self, AsSingleFrame(frame')).self

C20_PermissiveKind == [][C20_Step]_vars

C20_Witness ==
    /\ calls >= 2
    /\ HighNibble(frame[1]) = 15
    /\ ret = OkSome(MAX_DATA_BYTES_PER_FRAME)
    /\ data_of(Self) = Some(SubSeq(frame, 2, NUM_BYTES_PER_FRAME))

(* --------------------------- in-order transfer -------------------------- *)

\* Number of frames of a payload of length len >= 8: one First frame and
\* ceil((len - 6) / 7) Consecutive frames.
NumFrames(len) == 1 + (len - 6 + 6) \div 7

\* Frame k (from 0) of the payload p: the First frame carries the length and
\* p[1..6]; the k-th Consecutive frame carries index k mod 16 and the next
\* (up to) 7 bytes, the rest of the frame filled with 0xCC.
EncodeFrame(p, k) ==
    IF k = 0
    THEN <<16 + (Len(p) \div 256), Len(p) % 256>> \o SubSeq(p, 1, 6)
    ELSE LET from == FIRST_DATA_LENGTH + MAX_DATA_BYTES_PER_FRAME * (k - 1) IN
         <<32 + (k % 16)>> \o
         [i \in 1 .. MAX_DATA_BYTES_PER_FRAME |->
             IF from + i <= Len(p) THEN p[from + i] ELSE 204]

TransferLengths(n) == {len \in 8 .. n : n <= LongN \/ len >= n - 1}

InitTransfer ==
    /\ \E n \in TransferCapacities : InitDecoder(n)
    /\ \E len \in TransferLengths(N), seed \in Seeds :
          payload = [i \in 1 .. len |-> (i + seed) % U8]
    /\ sent = 0

\* Feed the next frame of the payload, in order.
FeedNext ==
    /\ sent < NumFrames(Len(payload))
    /\ Update(EncodeFrame(payload, sent))
    /\ sent' = sent + 1
    /\ UNCHANGED payload

NextTransfer == FeedNext

SpecTransfer == InitTransfer /\ [][NextTransfer]_vars

(* ------------------------------------------------------------------------ *)
(* C1. Multi-frame round trip: feeding the frames of a payload of length   *)
(* L, 8 <= L <= N, in order to a new decoder returns Ok(None) for every     *)
(* frame except the last, Ok(Some(L)) for the last, and data() is then the  *)
(* payload.                                                                 *)
(* ------------------------------------------------------------------------ *)
C1_RoundTrip ==
    sent >= 1 =>
        IF sent < NumFrames(Len(payload))
        THEN ret = OkNone
        ELSE /\ ret = OkSome(Len(payload))
             /\ data_of(Self) = Some(payload)

\* The same round trip where the index counter cannot overflow: builds
\* without overflow checks, and transfers of fewer than 255 Consecutive
\* frames.
RoundTripBelowOverflow ==
    (~overflow_checks \/ NumFrames(Len(payload)) - 1 < U8 - 1) => C1_RoundTrip

(* ------------------------------------------------------------------------ *)
(* C15. Accepted Consecutive frame effect: when the index matches and       *)
(* current_length <= expected_length, update writes chunk = min(7,          *)
(* expected_length - current_length) bytes from frame[1..1+chunk] to        *)
(* buffer[current_length..current_length+chunk] and no other buffer byte,   *)
(* advances current_length by chunk and next_index by one (in its 8 bits),  *)
(* and returns Ok(Some(current_length)) iff current_length then equals      *)
(* expected_length, else Ok(None).                                          *)
(* ------------------------------------------------------------------------ *)
C15_Step ==
    (/\ FrameTypeOf(frame') = "Consecutive"
     /\ LowNibble(frame'[1]) = next_index % 16
     /\ current_length <= expected_length) =>
        LET chunk == Min(MAX_DATA_BYTES_PER_FRAME, expected_length - current_length)
        IN /\ ret' = IF current_length + chunk = expected_length
                     THEN OkSome(current_length + chunk)
                     ELSE OkNone
           /\ \A i \in 1 .. N :
                 data'[i] = IF i > current_length /\ i <= current_length + chunk
                            THEN frame'[1 + i - current_length]
                            ELSE data[i]
           /\ current_length' = current_length + chunk
           /\ next_index' = (next_index + 1) % U8

C15_ConsecutiveEffect == [][C15_Step]_vars

\* The same where the increment of next_index cannot overflow.
ConsecutiveEffectBelowOverflow ==
    [][(~overflow_checks \/ next_index + 1 < U8) => C15_Step]_vars

(* ------------------------------------------------------------------------ *)
(* C14. Sequence counter overflow safety: next_index is advanced with       *)
(* overflow-safe arithmetic, so more than 255 accepted Consecutive frames   *)
(* on one instance never overflow the counter and never fault.              *)
(* ------------------------------------------------------------------------ *)
C14_CounterNeverFaults == ret # PanicOverflow

(* ------------------- transfer with frames in between -------------------- *)

\* Frames a caller may feed between the frames of a payload without
\* advancing the transfer: a Consecutive frame with the index after or
\* before the required one (a skipped or a repeated frame), Single-kind
\* frames with a low nibble above 7, a First frame declaring 4095 bytes, and
\* a FlowControl frame.
OtherFrames ==
    {<<b>> \o Ramp(255) :
        b \in {32 + ((next_index + 1) % 16), 32 + ((next_index + 15) % 16),
               8, 255, 31, 48}}

FeedOther ==
    /\ sent >= 1
    /\ sent < NumFrames(Len(payload))
    /\ calls - sent < MaxOthers
    /\ \E f \in OtherFrames : Update(f)
    /\ UNCHANGED <<payload, sent>>

NextResume == FeedNext \/ FeedOther

\* The transfers of SpecTransfer up to the capacity LongN.
InitResume == InitTransfer /\ N <= LongN

SpecResume == InitResume /\ [][NextResume]_vars

\* The transfer of the payload has completed: the last frame returned
\* Ok(Some(L)) and data() is the payload.
TransferCompleted ==
    /\ sent = NumFrames(Len(payload))
    /\ ret = OkSome(Len(payload))
    /\ data_of(Self) = Some(payload)

(* ------------------------------------------------------------------------ *)
(* C11. As claimed: once an update on a multi-frame transfer in progress    *)
(* has returned an error, no further update calls on the instance bring     *)
(* that transfer to completion with its payload.                            *)
(* ------------------------------------------------------------------------ *)
C11_ErrorsTerminal == errored => ~TransferCompleted

\* The transfers of SpecResume, and the transfer of WrapN bytes, whose last
\* Consecutive frame is the 255th and finds next_index = 255.
InitRecover ==
    /\ InitTransfer
    /\ \/ N <= LongN
       \/ payload = [i \in 1 .. WrapN |-> i % U8]

SpecRecover == InitRecover /\ [][NextResume]_vars

\* What the k-th frame (k >= 1) of the payload returns when the frames are
\* fed in order with nothing in between (SpecTransfer): the 256th frame finds
\* next_index = 255 and panics on the increment in a build with overflow
\* checks; otherwise the last frame reports the completion and the frames
\* before it return Ok(None).
UninterruptedResult(k) ==
    IF overflow_checks /\ k >= U8
    THEN PanicOverflow
    ELSE IF k = NumFrames(Len(payload))
    THEN OkSome(Len(payload))
    ELSE OkNone

\* UninterruptedResult is the result of the transfer without frames in
\* between, and its completion is the completion with the payload.
UninterruptedResultIsResult ==
    sent >= 1 =>
        /\ ret = UninterruptedResult(sent)
        /\ ret = OkSome(Len(payload)) => TransferCompleted

(* C11, amended: an update that returns an error on a transfer in progress  *)
(* changes no field of the decoder, and the transfer stays in progress      *)
(* exactly where it was; every frame of the payload fed after the error     *)
(* returns what it returns in the transfer without the rejected frames, so  *)
(* the last one completes the transfer with its payload whenever the        *)
(* uninterrupted transfer completes (it panics on the counter, as the       *)
(* uninterrupted transfer does, when it is the 256th frame in a build with  *)
(* overflow checks).                                                        *)
C11_Step ==
    /\ (InProgress /\ ret'.tag \in ErrTags) =>
          /\ FieldsUnchanged
          /\ current_length' >= FIRST_DATA_LENGTH
          /\ current_length' < expected_length'
    /\ (errored /\ sent' = sent + 1) =>
          /\ ret' = UninterruptedResult(sent')
          /\ ret' = OkSome(Len(payload)) => data_of(SelfNext) = Some(payload)

C11_ErrorLeavesTransfer == [][C11_Step]_vars

C11_Witness == errored /\ TransferCompleted

(* ------------------------------------------------------------------------ *)
(* C16. Sequence ordering: after an accepted First frame the k-th           *)
(* Consecutive frame is accepted only if its low nibble is k mod 16; a      *)
(* rejected frame does not advance the required index, nor does a frame of  *)
(* another kind that is a no-op or rejected. (Under SpecResume sent - 1     *)
(* Consecutive frames have been accepted, so the next one is the sent-th.)  *)
(* ------------------------------------------------------------------------ *)
C16_Step ==
    LET accepted == FrameTypeOf(frame') = "Consecutive"
                    /\ ret'.tag \in {"OkNone", "OkSome"}
    IN sent >= 1 =>
        /\ next_index % 16 = sent % 16
        /\ accepted => (LowNibble(frame'[1]) = sent % 16 /\ sent' = sent + 1)
        /\ ~accepted => next_index' = next_index

C16_SequenceOrdering == [][C16_Step]_vars

\* A Consecutive frame with index 1 is rejected where the 16th is required
\* (index 0), after the index has passed 15.
C16_Witness ==
    /\ sent = 16
    /\ ret = ErrMissedFrame(0, 1)
    /\ next_index = 16

(* ----------------------- frames after a transfer ------------------------ *)

\* The transfers of SpecTransfer up to the capacity MultiN, one payload for
\* each length.
InitReuse ==
    /\ InitTransfer
    /\ N <= MultiN
    /\ payload = [i \in 1 .. Len(payload) |-> i % U8]

\* Any frame fed to the instance after its transfer has completed.
FeedAfter ==
    /\ sent = NumFrames(Len(payload))
    /\ calls - sent < MaxAfter
    /\ \E f \in Frames : Update(f)
    /\ UNCHANGED <<payload, sent>>

NextReuse == FeedNext \/ FeedAfter

SpecReuse == InitReuse /\ [][NextReuse]_vars

(* ------------------------------------------------------------------------ *)
(* C12. As claimed: once an instance has reported completion of a transfer, *)
(* no further update calls on it reassemble and report a second, different  *)
(* payload.                                                                 *)
(* ------------------------------------------------------------------------ *)
C12_NoSecondPayload ==
    (sent = NumFrames(Len(payload)) /\ ret.tag = "OkSome") =>
        data_of(Self) = Some(payload)

\* data() is the payload of the completed transfer.
PayloadKept ==
    /\ sent = NumFrames(Len(payload))
    /\ data_of(Self) = Some(payload)

(* C12, amended: once an instance has reported completion of a transfer, no *)
(* sequence of further Consecutive and FlowControl frames makes it report a *)
(* second, different payload: after each of them data() is still the        *)
(* payload and a completion reports its size. (A further Single-kind or     *)
(* First frame is accepted in place and starts a new transfer.)             *)
C12_Step ==
    (PayloadKept /\ FrameTypeOf(frame') \in {"Consecutive", "FlowControl"}) =>
        /\ data_of(SelfNext) = Some(payload)
        /\ ret'.tag = "OkSome" => ret'.a = Len(payload)

C12_NoSecondPayloadWithoutRestart == [][C12_Step]_vars

\* A matching Consecutive frame after the completion reports it again.
C12_Witness ==
    /\ PayloadKept
    /\ calls > sent
    /\ FrameTypeOf(frame) = "Consecutive"
    /\ ret = OkSome(Len(payload))

(* ------------------- frames on a completed instance --------------------- *)

InitKeep ==
    /\ InitDecoder(TestN)
    /\ payload = <<>>
    /\ sent = 0

\* The test's first step: the Single frame completes a 7-byte transfer.
KeepSingle ==
    /\ calls = 0
    /\ Update(Single1Frame)
    /\ UNCHANGED <<payload, sent>>

\* A Consecutive frame with the required index, or with the one after it.
KeepConsecutive ==
    /\ calls >= 1
    /\ calls < MaxKeepCalls
    /\ \E i \in {next_index % 16, (next_index + 1) % 16} :
          Update(<<32 + i>> \o Ramp(17))
    /\ UNCHANGED <<payload, sent>>

KeepFlowControl ==
    /\ calls >= 1
    /\ calls < MaxKeepCalls
    /\ Update(<<48>> \o Ramp(0))
    /\ UNCHANGED <<payload, sent>>

NextKeep == KeepSingle \/ KeepConsecutive \/ KeepFlowControl

SpecKeep == InitKeep /\ [][NextKeep]_vars

(* ------------------------------------------------------------------------ *)
(* C19. Completed payload is stable: once ready() holds, every Consecutive  *)
(* frame (matching or not) and every FlowControl frame leaves               *)
(* expected_length, current_length and the buffer unchanged, and each       *)
(* matching Consecutive frame returns Ok(Some(size)) again.                 *)
(* ------------------------------------------------------------------------ *)
C19_Step ==
    (ready(Self) /\ FrameTypeOf(frame') \in {"Consecutive", "FlowControl"}) =>
        /\ UNCHANGED <<expected_length, current_length, data>>
        /\ (/\ FrameTypeOf(frame') = "Consecutive"
            /\ LowNibble(frame'[1]) = next_index % 16) =>
               ret' = OkSome(current_length)

C19_CompletedStable == [][C19_Step]_vars

\* The same where the increment of next_index cannot overflow.
CompletedStableBelowOverflow ==
    [][(~overflow_checks \/ next_index + 1 < U8) => C19_Step]_vars

=============================================================================
